---- MODULE Spec2Model ----
(***************************************************************************)
(* Model of the collections router (server/app/routers/collections.py).    *)
(*                                                                         *)
(* The store holds three tables: collections, records and shares.  Every   *)
(* handler of the router is one action of Spec (one request, executed as   *)
(* one transaction).  SpecConc runs the handlers that write membership     *)
(* references statement by statement, so that requests interleave between  *)
(* their ownership lookups and their commit.                               *)
(***************************************************************************)
EXTENDS Integers, FiniteSets, Sequences, TLC

\* ---- bounds of the model ------------------------------------------------
MaxCollections == 2
MaxRecords == 2
MaxRequests == 2

\* ---- input domains ------------------------------------------------------
Users == {"u1", "u2"}
Names == {"Work", ""}
Descriptions == {"tasks"}
Filenames == {"a.txt"}
Contents == {"hi"}
Tokens == {"t1", "t2"}

\* Python's None, for an id-valued column and for a string-valued field.
NoId == 0
None == "None"

CollectionIds == 1..MaxCollections
RecordIds == 1..MaxRecords
Procs == 1..MaxRequests

VARIABLES
    collections,       \* table Collection: id -> [name, description, user_id]
    records,           \* table Record: id -> [filename, content, user_id, collection_id]
    shares,            \* table Share: share_token -> [collection_id, is_active]
    nextCollectionId,  \* next generated Collection id
    nextRecordId,      \* next generated Record id
    last,              \* the most recent request and the reply it got
    reqs               \* SpecConc: the requests in flight, one per worker

vars == <<collections, records, shares, nextCollectionId, nextRecordId, last, reqs>>
Store == <<collections, records, shares>>

\* ---- requests and replies -----------------------------------------------
EmptyBody ==
    [collection |-> {}, records |-> {}, shared_collection |-> {},
     shared_records |-> {}, message |-> None]

Request(op, user, cid, rid, token, name, description) ==
    [op |-> op, user |-> user, cid |-> cid, rid |-> rid, token |-> token,
     name |-> name, description |-> description]

\* prior is history: the membership references the request overwrote, as
\* <<record id, reference before the write>>.
Reply(req, status, detail, body) ==
    [request |-> req, status |-> status, detail |-> detail, body |-> body, prior |-> {}]

HTTPException(req, detail) == Reply(req, 404, detail, EmptyBody)

IdleRequest == [pc |-> "idle", user |-> None, cid |-> NoId, rid |-> NoId, loaded |-> NoId]

\* ---- rows as the handlers return them -----------------------------------
CollectionRow(colls, id) ==
    [id |-> id, name |-> colls[id].name, description |-> colls[id].description,
     user_id |-> colls[id].user_id]

RecordRow(recs, id) ==
    [id |-> id, filename |-> recs[id].filename, content |-> recs[id].content,
     user_id |-> recs[id].user_id, collection_id |-> recs[id].collection_id]

\* db.query(Record).filter(Record.collection_id == collection_id).all()
RecordsIn(recs, collection_id) ==
    {r \in DOMAIN recs : recs[r].collection_id = collection_id}

Init ==
    /\ collections = <<>>
    /\ records = <<>>
    /\ shares = [t \in {} |-> 0]
    /\ nextCollectionId = 1
    /\ nextRecordId = 1
    /\ last = Reply(Request("none", None, NoId, NoId, None, None, None), 200, None, EmptyBody)
    /\ reqs = [p \in Procs |-> IdleRequest]

\* ---- the handlers, one request per step ---------------------------------
create_collection(name, description, current_user) ==
    /\ nextCollectionId <= MaxCollections
    /\ collections' = [c \in DOMAIN collections \cup {nextCollectionId} |->
                          IF c = nextCollectionId
                          THEN [name |-> name, description |-> description,
                                user_id |-> current_user]
                          ELSE collections[c]]
    /\ nextCollectionId' = nextCollectionId + 1
    /\ last' = Reply(Request("Create", current_user, NoId, NoId, None, name, description),
                     200, None,
                     [EmptyBody EXCEPT !.collection =
                         {CollectionRow(collections', nextCollectionId)}])
    /\ UNCHANGED <<records, shares, nextRecordId, reqs>>

get_all_collections(current_user) ==
    /\ last' = Reply(Request("ListAll", current_user, NoId, NoId, None, None, None),
                     200, None,
                     [EmptyBody EXCEPT !.collection =
                         {CollectionRow(collections, c) :
                             c \in {d \in DOMAIN collections :
                                       collections[d].user_id = current_user}}])
    /\ UNCHANGED <<collections, records, shares, nextCollectionId, nextRecordId, reqs>>

get_collection_result(collection_id, current_user) ==
    LET req == Request("Get", current_user, collection_id, NoId, None, None, None) IN
    IF /\ collection_id \in DOMAIN collections
       /\ collections[collection_id].user_id = current_user
    THEN Reply(req, 200, None,
               [EmptyBody EXCEPT !.collection =
                   {CollectionRow(collections, collection_id)}])
    ELSE HTTPException(req, "Collection not found")

\* Mutant: the lookup filters by id only.
get_collection_any_owner(collection_id, current_user) ==
    LET req == Request("Get", current_user, collection_id, NoId, None, None, None) IN
    /\ IF collection_id \in DOMAIN collections
       THEN last' = Reply(req, 200, None,
                          [EmptyBody EXCEPT !.collection =
                              {CollectionRow(collections, collection_id)}])
       ELSE last' = HTTPException(req, "Collection not found")
    /\ UNCHANGED <<collections, records, shares, nextCollectionId, nextRecordId, reqs>>

get_collection(collection_id, current_user) ==
    /\ last' = get_collection_result(collection_id, current_user)
    /\ UNCHANGED <<collections, records, shares, nextCollectionId, nextRecordId, reqs>>

\* Mutant: the lookup filters by id only.
update_collection_any_owner(collection_id, name, description, current_user) ==
    LET req == Request("Replace", current_user, collection_id, NoId, None, name, description) IN
    IF collection_id \in DOMAIN collections
    THEN /\ collections' = [collections EXCEPT ![collection_id].name = name,
                                               ![collection_id].description = description]
         /\ last' = Reply(req, 200, None,
                          [EmptyBody EXCEPT !.collection =
                              {CollectionRow(collections', collection_id)}])
         /\ UNCHANGED <<records, shares, nextCollectionId, nextRecordId, reqs>>
    ELSE /\ last' = HTTPException(req, "Collection not found")
         /\ UNCHANGED <<collections, records, shares, nextCollectionId, nextRecordId, reqs>>

update_collection(collection_id, name, description, current_user) ==
    LET req == Request("Replace", current_user, collection_id, NoId, None, name, description) IN
    IF /\ collection_id \in DOMAIN collections
       /\ collections[collection_id].user_id = current_user
    THEN /\ collections' = [collections EXCEPT ![collection_id].name = name,
                                               ![collection_id].description = description]
         /\ last' = Reply(req, 200, None,
                          [EmptyBody EXCEPT !.collection =
                              {CollectionRow(collections', collection_id)}])
         /\ UNCHANGED <<records, shares, nextCollectionId, nextRecordId, reqs>>
    ELSE /\ last' = HTTPException(req, "Collection not found")
         /\ UNCHANGED <<collections, records, shares, nextCollectionId, nextRecordId, reqs>>

\* Mutant: the description is assigned whether or not it was provided.
update_collection_partial_overwrites(collection_id, name, description, current_user) ==
    LET req == Request("PatchUpdate", current_user, collection_id, NoId, None, name, description) IN
    IF /\ collection_id \in DOMAIN collections
       /\ collections[collection_id].user_id = current_user
    THEN /\ collections' =
                [collections EXCEPT
                    ![collection_id].name = IF name # None THEN name ELSE @,
                    ![collection_id].description = description]
         /\ last' = Reply(req, 200, None,
                          [EmptyBody EXCEPT !.collection =
                              {CollectionRow(collections', collection_id)}])
         /\ UNCHANGED <<records, shares, nextCollectionId, nextRecordId, reqs>>
    ELSE /\ last' = HTTPException(req, "Collection not found")
         /\ UNCHANGED <<collections, records, shares, nextCollectionId, nextRecordId, reqs>>

update_collection_partial(collection_id, name, description, current_user) ==
    LET req == Request("PatchUpdate", current_user, collection_id, NoId, None, name, description) IN
    IF /\ collection_id \in DOMAIN collections
       /\ collections[collection_id].user_id = current_user
    THEN /\ collections' =
                [collections EXCEPT
                    ![collection_id].name = IF name # None THEN name ELSE @,
                    ![collection_id].description =
                        IF description # None THEN description ELSE @]
         /\ last' = Reply(req, 200, None,
                          [EmptyBody EXCEPT !.collection =
                              {CollectionRow(collections', collection_id)}])
         /\ UNCHANGED <<records, shares, nextCollectionId, nextRecordId, reqs>>
    ELSE /\ last' = HTTPException(req, "Collection not found")
         /\ UNCHANGED <<collections, records, shares, nextCollectionId, nextRecordId, reqs>>

get_records_result(collection_id, current_user) ==
    LET req == Request("ListRecords", current_user, collection_id, NoId, None, None, None) IN
    IF /\ collection_id \in DOMAIN collections
       /\ collections[collection_id].user_id = current_user
    THEN Reply(req, 200, None,
               [EmptyBody EXCEPT !.records =
                   {RecordRow(records, r) : r \in RecordsIn(records, collection_id)}])
    ELSE HTTPException(req, "Collection not found")

get_records_from_collection(collection_id, current_user) ==
    /\ last' = get_records_result(collection_id, current_user)
    /\ UNCHANGED <<collections, records, shares, nextCollectionId, nextRecordId, reqs>>

\* Mutant: the record lookup filters by id only.
add_record_to_collection_any_record(collection_id, record_id, current_user) ==
    LET req == Request("LinkRecord", current_user, collection_id, record_id, None, None, None) IN
    IF ~ (/\ collection_id \in DOMAIN collections
          /\ collections[collection_id].user_id = current_user)
    THEN /\ last' = HTTPException(req, "Collection not found")
         /\ UNCHANGED <<collections, records, shares, nextCollectionId, nextRecordId, reqs>>
    ELSE IF ~ (record_id \in DOMAIN records)
    THEN /\ last' = HTTPException(req, "Record not found")
         /\ UNCHANGED <<collections, records, shares, nextCollectionId, nextRecordId, reqs>>
    ELSE /\ records' = [records EXCEPT ![record_id].collection_id = collection_id]
         /\ last' = [Reply(req, 200, None,
                           [EmptyBody EXCEPT !.message =
                               "Record added to collection successfully"])
                        EXCEPT !.prior = {<<record_id, records[record_id].collection_id>>}]
         /\ UNCHANGED <<collections, shares, nextCollectionId, nextRecordId, reqs>>

\* Mutant: a record that already belongs to a collection keeps its reference.
add_record_to_collection_keeps_link(collection_id, record_id, current_user) ==
    LET req == Request("LinkRecord", current_user, collection_id, record_id, None, None, None) IN
    IF ~ (/\ collection_id \in DOMAIN collections
          /\ collections[collection_id].user_id = current_user)
    THEN /\ last' = HTTPException(req, "Collection not found")
         /\ UNCHANGED <<collections, records, shares, nextCollectionId, nextRecordId, reqs>>
    ELSE IF ~ (/\ record_id \in DOMAIN records
               /\ records[record_id].user_id = current_user)
    THEN /\ last' = HTTPException(req, "Record not found")
         /\ UNCHANGED <<collections, records, shares, nextCollectionId, nextRecordId, reqs>>
    ELSE /\ records' = [records EXCEPT ![record_id].collection_id =
                           IF @ = NoId THEN collection_id ELSE @]
         /\ last' = [Reply(req, 200, None,
                           [EmptyBody EXCEPT !.message =
                               "Record added to collection successfully"])
                        EXCEPT !.prior = {<<record_id, records[record_id].collection_id>>}]
         /\ UNCHANGED <<collections, shares, nextCollectionId, nextRecordId, reqs>>

add_record_to_collection(collection_id, record_id, current_user) ==
    LET req == Request("LinkRecord", current_user, collection_id, record_id, None, None, None) IN
    IF ~ (/\ collection_id \in DOMAIN collections
          /\ collections[collection_id].user_id = current_user)
    THEN /\ last' = HTTPException(req, "Collection not found")
         /\ UNCHANGED <<collections, records, shares, nextCollectionId, nextRecordId, reqs>>
    ELSE IF ~ (/\ record_id \in DOMAIN records
               /\ records[record_id].user_id = current_user)
    THEN /\ last' = HTTPException(req, "Record not found")
         /\ UNCHANGED <<collections, records, shares, nextCollectionId, nextRecordId, reqs>>
    ELSE /\ records' = [records EXCEPT ![record_id].collection_id = collection_id]
         /\ last' = [Reply(req, 200, None,
                           [EmptyBody EXCEPT !.message =
                               "Record added to collection successfully"])
                        EXCEPT !.prior = {<<record_id, records[record_id].collection_id>>}]
         /\ UNCHANGED <<collections, shares, nextCollectionId, nextRecordId, reqs>>

\* Mutant: the record lookup does not filter by the collection.
remove_record_from_collection_any_link(collection_id, record_id, current_user) ==
    LET req == Request("UnlinkRecord", current_user, collection_id, record_id, None, None, None) IN
    IF ~ (/\ collection_id \in DOMAIN collections
          /\ collections[collection_id].user_id = current_user)
    THEN /\ last' = HTTPException(req, "Collection not found")
         /\ UNCHANGED <<collections, records, shares, nextCollectionId, nextRecordId, reqs>>
    ELSE IF ~ (/\ record_id \in DOMAIN records
               /\ records[record_id].user_id = current_user)
    THEN /\ last' = HTTPException(req, "Record not found in this collection")
         /\ UNCHANGED <<collections, records, shares, nextCollectionId, nextRecordId, reqs>>
    ELSE /\ records' = [records EXCEPT ![record_id].collection_id = NoId]
         /\ last' = [Reply(req, 200, None,
                           [EmptyBody EXCEPT !.message =
                               "Record removed from collection successfully"])
                        EXCEPT !.prior = {<<record_id, records[record_id].collection_id>>}]
         /\ UNCHANGED <<collections, shares, nextCollectionId, nextRecordId, reqs>>

remove_record_from_collection(collection_id, record_id, current_user) ==
    LET req == Request("UnlinkRecord", current_user, collection_id, record_id, None, None, None) IN
    IF ~ (/\ collection_id \in DOMAIN collections
          /\ collections[collection_id].user_id = current_user)
    THEN /\ last' = HTTPException(req, "Collection not found")
         /\ UNCHANGED <<collections, records, shares, nextCollectionId, nextRecordId, reqs>>
    ELSE IF ~ (/\ record_id \in DOMAIN records
               /\ records[record_id].user_id = current_user
               /\ records[record_id].collection_id = collection_id)
    THEN /\ last' = HTTPException(req, "Record not found in this collection")
         /\ UNCHANGED <<collections, records, shares, nextCollectionId, nextRecordId, reqs>>
    ELSE /\ records' = [records EXCEPT ![record_id].collection_id = NoId]
         /\ last' = [Reply(req, 200, None,
                           [EmptyBody EXCEPT !.message =
                               "Record removed from collection successfully"])
                        EXCEPT !.prior = {<<record_id, records[record_id].collection_id>>}]
         /\ UNCHANGED <<collections, shares, nextCollectionId, nextRecordId, reqs>>

\* Mutant: the collection is deleted without the bulk update of its records.
delete_collection_no_clear(collection_id, current_user) ==
    LET req == Request("Delete", current_user, collection_id, NoId, None, None, None) IN
    IF /\ collection_id \in DOMAIN collections
       /\ collections[collection_id].user_id = current_user
    THEN /\ collections' = [c \in DOMAIN collections \ {collection_id} |-> collections[c]]
         /\ last' = Reply(req, 200, None,
                          [EmptyBody EXCEPT !.message = "Collection deleted successfully"])
         /\ UNCHANGED <<records, shares, nextCollectionId, nextRecordId, reqs>>
    ELSE /\ last' = HTTPException(req, "Collection not found")
         /\ UNCHANGED <<collections, records, shares, nextCollectionId, nextRecordId, reqs>>

\* Mutant: the bulk update has no filter and clears every record.
delete_collection_clears_all(collection_id, current_user) ==
    LET req == Request("Delete", current_user, collection_id, NoId, None, None, None) IN
    IF /\ collection_id \in DOMAIN collections
       /\ collections[collection_id].user_id = current_user
    THEN /\ records' = [r \in DOMAIN records |-> [records[r] EXCEPT !.collection_id = NoId]]
         /\ collections' = [c \in DOMAIN collections \ {collection_id} |-> collections[c]]
         /\ last' = [Reply(req, 200, None,
                           [EmptyBody EXCEPT !.message = "Collection deleted successfully"])
                        EXCEPT !.prior = {<<r, collection_id>> :
                                             r \in RecordsIn(records, collection_id)}]
         /\ UNCHANGED <<shares, nextCollectionId, nextRecordId, reqs>>
    ELSE /\ last' = HTTPException(req, "Collection not found")
         /\ UNCHANGED <<collections, records, shares, nextCollectionId, nextRecordId, reqs>>

delete_collection(collection_id, current_user) ==
    LET req == Request("Delete", current_user, collection_id, NoId, None, None, None) IN
    IF /\ collection_id \in DOMAIN collections
       /\ collections[collection_id].user_id = current_user
    THEN /\ records' = [r \in DOMAIN records |->
                           IF records[r].collection_id = collection_id
                           THEN [records[r] EXCEPT !.collection_id = NoId]
                           ELSE records[r]]
         /\ collections' = [c \in DOMAIN collections \ {collection_id} |-> collections[c]]
         /\ last' = [Reply(req, 200, None,
                           [EmptyBody EXCEPT !.message = "Collection deleted successfully"])
                        EXCEPT !.prior = {<<r, collection_id>> :
                                             r \in RecordsIn(records, collection_id)}]
         /\ UNCHANGED <<shares, nextCollectionId, nextRecordId, reqs>>
    ELSE /\ last' = HTTPException(req, "Collection not found")
         /\ UNCHANGED <<collections, records, shares, nextCollectionId, nextRecordId, reqs>>

\* Mutant: the share lookup does not filter by is_active.
access_shared_collection_inactive(share_token) ==
    LET req == Request("AccessShared", None, NoId, NoId, share_token, None, None) IN
    /\ IF ~ (/\ share_token \in DOMAIN shares
             /\ shares[share_token].collection_id # NoId)
       THEN last' = HTTPException(req, "Invalid or expired share link")
       ELSE IF shares[share_token].collection_id \notin DOMAIN collections
       THEN last' = HTTPException(req, "Collection not found")
       ELSE LET cid == shares[share_token].collection_id IN
            last' = Reply(req, 200, None,
                          [EmptyBody EXCEPT
                              !.shared_collection =
                                  {[id |-> cid, name |-> collections[cid].name,
                                    description |-> collections[cid].description]},
                              !.shared_records =
                                  {[id |-> r, filename |-> records[r].filename,
                                    content |-> records[r].content] :
                                      r \in RecordsIn(records, cid)}])
    /\ UNCHANGED <<collections, records, shares, nextCollectionId, nextRecordId, reqs>>

access_shared_collection(share_token) ==
    LET req == Request("AccessShared", None, NoId, NoId, share_token, None, None) IN
    /\ IF ~ (/\ share_token \in DOMAIN shares
             /\ shares[share_token].is_active
             /\ shares[share_token].collection_id # NoId)
       THEN last' = HTTPException(req, "Invalid or expired share link")
       ELSE IF shares[share_token].collection_id \notin DOMAIN collections
       THEN last' = HTTPException(req, "Collection not found")
       ELSE LET cid == shares[share_token].collection_id IN
            last' = Reply(req, 200, None,
                          [EmptyBody EXCEPT
                              !.shared_collection =
                                  {[id |-> cid, name |-> collections[cid].name,
                                    description |-> collections[cid].description]},
                              !.shared_records =
                                  {[id |-> r, filename |-> records[r].filename,
                                    content |-> records[r].content] :
                                      r \in RecordsIn(records, cid)}])
    /\ UNCHANGED <<collections, records, shares, nextCollectionId, nextRecordId, reqs>>

\* ---- the collaborators that create records and shares -------------------
CreateRecord(filename, content, current_user) ==
    /\ nextRecordId <= MaxRecords
    /\ records' = [r \in DOMAIN records \cup {nextRecordId} |->
                      IF r = nextRecordId
                      THEN [filename |-> filename, content |-> content,
                            user_id |-> current_user, collection_id |-> NoId]
                      ELSE records[r]]
    /\ nextRecordId' = nextRecordId + 1
    /\ last' = Reply(Request("CreateRecord", current_user, NoId, nextRecordId, None, None, None),
                     200, None, EmptyBody)
    /\ UNCHANGED <<collections, shares, nextCollectionId, reqs>>

CreateShare(share_token, collection_id) ==
    /\ share_token \notin DOMAIN shares
    /\ collection_id \in DOMAIN collections \cup {NoId}
    /\ shares' = [t \in DOMAIN shares \cup {share_token} |->
                     IF t = share_token
                     THEN [collection_id |-> collection_id, is_active |-> TRUE]
                     ELSE shares[t]]
    /\ last' = Reply(Request("CreateShare", None, collection_id, NoId, share_token, None, None),
                     200, None, EmptyBody)
    /\ UNCHANGED <<collections, records, nextCollectionId, nextRecordId, reqs>>

DeactivateShare(share_token) ==
    /\ share_token \in DOMAIN shares
    /\ shares[share_token].is_active
    /\ shares' = [shares EXCEPT ![share_token].is_active = FALSE]
    /\ last' = Reply(Request("DeactivateShare", None, NoId, NoId, share_token, None, None),
                     200, None, EmptyBody)
    /\ UNCHANGED <<collections, records, nextCollectionId, nextRecordId, reqs>>

\* ---- the handlers that write membership, one statement per step ----------
\* A worker runs one request at a time; reqs[p] holds the request's position
\* and what its queries loaded.  Each query and the commit are separate steps.
Others == <<collections, records, shares, nextCollectionId, nextRecordId, last>>

add_record_query_collection(p, collection_id, record_id, current_user) ==
    /\ reqs[p].pc = "idle"
    /\ IF /\ collection_id \in DOMAIN collections
          /\ collections[collection_id].user_id = current_user
       THEN reqs' = [reqs EXCEPT ![p] =
                        [pc |-> "add_record_query_record", user |-> current_user,
                         cid |-> collection_id, rid |-> record_id, loaded |-> NoId]]
       ELSE UNCHANGED reqs
    /\ UNCHANGED Others

add_record_query_record(p) ==
    /\ reqs[p].pc = "add_record_query_record"
    /\ IF /\ reqs[p].rid \in DOMAIN records
          /\ records[reqs[p].rid].user_id = reqs[p].user
       THEN reqs' = [reqs EXCEPT ![p].pc = "add_record_commit",
                                 ![p].loaded = records[reqs[p].rid].collection_id]
       ELSE reqs' = [reqs EXCEPT ![p] = IdleRequest]
    /\ UNCHANGED Others

\* The store's answer to a write of a membership reference.  A reference to
\* a collection that exists is stored.  A reference to a collection that has
\* been deleted meanwhile is stored by a store that does not enforce the
\* foreign key and is rejected by a store that enforces it.
CommitMembership(record_id, collection_id) ==
    \/ /\ collection_id \in DOMAIN collections
       /\ records' = [records EXCEPT ![record_id].collection_id = collection_id]
    \/ /\ collection_id \notin DOMAIN collections
       /\ records' = [records EXCEPT ![record_id].collection_id = collection_id]
    \/ /\ collection_id \notin DOMAIN collections
       /\ UNCHANGED records

\* record.collection_id = collection_id; db.commit().  The session writes the
\* column only when the assigned value differs from the loaded one.
add_record_commit(p) ==
    /\ reqs[p].pc = "add_record_commit"
    /\ IF reqs[p].loaded = reqs[p].cid
       THEN UNCHANGED records
       ELSE CommitMembership(reqs[p].rid, reqs[p].cid)
    /\ reqs' = [reqs EXCEPT ![p] = IdleRequest]
    /\ UNCHANGED <<collections, shares, nextCollectionId, nextRecordId, last>>

remove_record_query_collection(p, collection_id, record_id, current_user) ==
    /\ reqs[p].pc = "idle"
    /\ IF /\ collection_id \in DOMAIN collections
          /\ collections[collection_id].user_id = current_user
       THEN reqs' = [reqs EXCEPT ![p] =
                        [pc |-> "remove_record_query_record", user |-> current_user,
                         cid |-> collection_id, rid |-> record_id, loaded |-> NoId]]
       ELSE UNCHANGED reqs
    /\ UNCHANGED Others

remove_record_query_record(p) ==
    /\ reqs[p].pc = "remove_record_query_record"
    /\ IF /\ reqs[p].rid \in DOMAIN records
          /\ records[reqs[p].rid].user_id = reqs[p].user
          /\ records[reqs[p].rid].collection_id = reqs[p].cid
       THEN reqs' = [reqs EXCEPT ![p].pc = "remove_record_commit",
                                 ![p].loaded = records[reqs[p].rid].collection_id]
       ELSE reqs' = [reqs EXCEPT ![p] = IdleRequest]
    /\ UNCHANGED Others

remove_record_commit(p) ==
    /\ reqs[p].pc = "remove_record_commit"
    /\ records' = [records EXCEPT ![reqs[p].rid].collection_id = NoId]
    /\ reqs' = [reqs EXCEPT ![p] = IdleRequest]
    /\ UNCHANGED <<collections, shares, nextCollectionId, nextRecordId, last>>

delete_query_collection(p, collection_id, current_user) ==
    /\ reqs[p].pc = "idle"
    /\ IF /\ collection_id \in DOMAIN collections
          /\ collections[collection_id].user_id = current_user
       THEN reqs' = [reqs EXCEPT ![p] =
                        [pc |-> "delete_commit", user |-> current_user,
                         cid |-> collection_id, rid |-> NoId, loaded |-> NoId]]
       ELSE UNCHANGED reqs
    /\ UNCHANGED Others

\* The bulk UPDATE, the DELETE and db.commit(), as one transaction.
delete_commit(p) ==
    /\ reqs[p].pc = "delete_commit"
    /\ records' = [r \in DOMAIN records |->
                      IF records[r].collection_id = reqs[p].cid
                      THEN [records[r] EXCEPT !.collection_id = NoId]
                      ELSE records[r]]
    /\ collections' = [c \in DOMAIN collections \ {reqs[p].cid} |-> collections[c]]
    /\ reqs' = [reqs EXCEPT ![p] = IdleRequest]
    /\ UNCHANGED <<shares, nextCollectionId, nextRecordId, last>>

\* ---- specifications ----------------------------------------------------
\* Narrow metadata inputs for the specifications that are about membership,
\* ownership and shares; SpecMeta draws names and descriptions in full.
NewNames == {"Work"}
NewDescriptions == {None}
NewTokens == {"t1"}

\* Collection metadata: create, read, replace, patch, delete.
NextMeta ==
    \/ \E n \in Names, d \in Descriptions \cup {None}, u \in Users :
          create_collection(n, d, u)
    \/ \E u \in Users : get_all_collections(u)
    \/ \E c \in CollectionIds, u \in Users : get_collection(c, u)
    \/ \E c \in CollectionIds, n \in Names, d \in Descriptions \cup {None}, u \in Users :
          update_collection(c, n, d, u)
    \/ \E c \in CollectionIds, n \in Names \cup {None}, d \in Descriptions \cup {None},
          u \in Users :
          update_collection_partial(c, n, d, u)
    \/ \E c \in CollectionIds, u \in Users : delete_collection(c, u)

SpecMeta == Init /\ [][NextMeta]_vars

\* Membership of records in collections.
Next ==
    \/ \E n \in NewNames, d \in NewDescriptions, u \in Users :
          create_collection(n, d, u)
    \/ \E f \in Filenames, x \in Contents, u \in Users : CreateRecord(f, x, u)
    \/ \E c \in CollectionIds, u \in Users : get_collection(c, u)
    \/ \E c \in CollectionIds, u \in Users : get_records_from_collection(c, u)
    \/ \E c \in CollectionIds, r \in RecordIds, u \in Users :
          add_record_to_collection(c, r, u)
    \/ \E c \in CollectionIds, r \in RecordIds, u \in Users :
          remove_record_from_collection(c, r, u)
    \/ \E c \in CollectionIds, u \in Users : delete_collection(c, u)

Spec == Init /\ [][Next]_vars

\* Every handler that takes a collection id, called by owners and non-owners.
\* Replace and PatchUpdate write the metadata that Create stores.
NextOwner ==
    \/ \E n \in NewNames, d \in NewDescriptions, u \in Users :
          create_collection(n, d, u)
    \/ \E f \in Filenames, x \in Contents, u \in Users : CreateRecord(f, x, u)
    \/ \E c \in CollectionIds, n \in NewNames, d \in NewDescriptions, u \in Users :
          update_collection(c, n, d, u)
    \/ \E c \in CollectionIds, n \in NewNames, d \in NewDescriptions, u \in Users :
          update_collection_partial(c, n, d, u)
    \/ \E c \in CollectionIds, u \in Users : get_records_from_collection(c, u)
    \/ \E c \in CollectionIds, r \in RecordIds, u \in Users :
          add_record_to_collection(c, r, u)
    \/ \E c \in CollectionIds, r \in RecordIds, u \in Users :
          remove_record_from_collection(c, r, u)
    \/ \E c \in CollectionIds, u \in Users : delete_collection(c, u)

SpecOwner == Init /\ [][NextOwner]_vars

\* Access by share token.
NextShare ==
    \/ \E n \in NewNames, d \in NewDescriptions, u \in Users :
          create_collection(n, d, u)
    \/ \E f \in Filenames, x \in Contents, u \in Users : CreateRecord(f, x, u)
    \/ \E c \in CollectionIds, r \in RecordIds, u \in Users :
          add_record_to_collection(c, r, u)
    \/ \E c \in CollectionIds, u \in Users : delete_collection(c, u)
    \/ \E t \in NewTokens, c \in CollectionIds \cup {NoId} : CreateShare(t, c)
    \/ \E t \in NewTokens : DeactivateShare(t)
    \/ \E t \in Tokens : access_shared_collection(t)

SpecShare == Init /\ [][NextShare]_vars

\* Requests of several workers, interleaved statement by statement.
NextConc ==
    \/ \E n \in NewNames, d \in NewDescriptions, u \in Users :
          create_collection(n, d, u)
    \/ \E f \in Filenames, x \in Contents, u \in Users : CreateRecord(f, x, u)
    \/ \E p \in Procs, c \in CollectionIds, r \in RecordIds, u \in Users :
          add_record_query_collection(p, c, r, u)
    \/ \E p \in Procs : add_record_query_record(p)
    \/ \E p \in Procs : add_record_commit(p)
    \/ \E p \in Procs, c \in CollectionIds, r \in RecordIds, u \in Users :
          remove_record_query_collection(p, c, r, u)
    \/ \E p \in Procs : remove_record_query_record(p)
    \/ \E p \in Procs : remove_record_commit(p)
    \/ \E p \in Procs, c \in CollectionIds, u \in Users :
          delete_query_collection(p, c, u)
    \/ \E p \in Procs : delete_commit(p)

SpecConc == Init /\ [][NextConc]_vars

\* ---- properties ---------------------------------------------------------
\* What the properties expect of a rejected request: status 404 and no body.
NotFound(req, detail) ==
    [request |-> req, status |-> 404, detail |-> detail, body |-> EmptyBody, prior |-> {}]

Owns(user, cid) == cid \in DOMAIN collections /\ collections[cid].user_id = user

\* The ids ListRecords(cid) returns to user.
Listed(cid, user) == {row.id : row \in get_records_result(cid, user).body.records}

\* C1: Create stores a collection owned by the caller and a collection's owner
\* never changes; Get(id) by the owner succeeds and returns the collection's id,
\* name, description and owner; Get(id) by any other user gets the NotFound
\* reply that Get gets for an id that does not exist.
C1_GetOwnerOnly ==
    [][ LET rq == last'.request IN
        /\ rq.op = "Create" =>
              \E row \in last'.body.collection :
                 /\ row.id \notin DOMAIN collections
                 /\ row.id \in DOMAIN collections'
                 /\ row = [id |-> row.id, name |-> rq.name,
                           description |-> rq.description, user_id |-> rq.user]
                 /\ collections'[row.id] = [name |-> rq.name,
                                            description |-> rq.description,
                                            user_id |-> rq.user]
        /\ \A c \in DOMAIN collections \cap DOMAIN collections' :
              collections'[c].user_id = collections[c].user_id
        /\ rq.op = "Get" =>
              /\ Owns(rq.user, rq.cid) =>
                    /\ last'.status = 200
                    /\ last'.body.collection =
                          {[id |-> rq.cid, name |-> collections[rq.cid].name,
                            description |-> collections[rq.cid].description,
                            user_id |-> rq.user]}
              /\ (rq.cid \in DOMAIN collections /\ collections[rq.cid].user_id # rq.user) =>
                    last' = NotFound(rq, "Collection not found")
              /\ rq.cid \notin DOMAIN collections =>
                    last' = NotFound(rq, "Collection not found")
      ]_vars

\* A non-owner asked for a collection that exists and got 404.
C1_Witness ==
    /\ last.request.op = "Get"
    /\ last.request.cid \in DOMAIN collections
    /\ collections[last.request.cid].user_id # last.request.user
    /\ last.status = 404

C3_PatchKeepsReplaceOverwrites ==
    [][ LET rq == last'.request IN
        /\ ( /\ rq.op = "PatchUpdate"
             /\ rq.name # None
             /\ rq.description = None
             /\ Owns(rq.user, rq.cid) )
           => /\ last'.status = 200
              /\ DOMAIN collections' = DOMAIN collections
              /\ collections'[rq.cid].description = collections[rq.cid].description
              /\ collections'[rq.cid].name = rq.name
              /\ collections'[rq.cid].user_id = collections[rq.cid].user_id
        /\ ( /\ rq.op = "Replace"
             /\ rq.description = None
             /\ Owns(rq.user, rq.cid) )
           => /\ last'.status = 200
              /\ DOMAIN collections' = DOMAIN collections
              /\ collections'[rq.cid].description = None
              /\ collections'[rq.cid].name = rq.name
              /\ collections'[rq.cid].user_id = collections[rq.cid].user_id
      ]_vars

\* A patch that gave only a name, on a collection that has a description.
C3_Witness ==
    /\ last.request.op = "PatchUpdate"
    /\ last.request.name # None
    /\ last.request.description = None
    /\ last.status = 200
    /\ last.request.cid \in DOMAIN collections
    /\ collections[last.request.cid].description # None
    /\ collections[last.request.cid].name = last.request.name

\* C4: LinkRecord(C, R) by the owner of both succeeds whatever R's membership
\* was, and then ListRecords(C) includes R; when R was already linked to C the
\* store is unchanged.  After UnlinkRecord(C, R) succeeds, ListRecords(C)
\* excludes R and R still exists with its filename, content and owner.
C4_LinkThenUnlink ==
    [][ last'.request.op \in {"LinkRecord", "UnlinkRecord"} =>
        \A c \in {last'.request.cid} \cap CollectionIds,
           r \in {last'.request.rid} \cap RecordIds,
           u \in {last'.request.user} \cap Users :
        /\ ( /\ last'.request = Request("LinkRecord", u, c, r, None, None, None)
             /\ Owns(u, c)
             /\ r \in DOMAIN records
             /\ records[r].user_id = u )
           => /\ last'.status = 200
              /\ r \in Listed(c, u)'
              /\ records[r].collection_id = c => Store' = Store
        /\ ( /\ last'.request = Request("UnlinkRecord", u, c, r, None, None, None)
             /\ last'.status = 200 )
           => /\ r \in Listed(c, u)
              /\ get_records_result(c, u)'.status = 200
              /\ r \notin Listed(c, u)'
              /\ r \in DOMAIN records'
              /\ records'[r] = [records[r] EXCEPT !.collection_id = NoId]
      ]_vars

\* A record was moved from another collection by LinkRecord.
C4_Witness ==
    /\ last.request.op = "LinkRecord"
    /\ last.status = 200
    /\ \E pr \in last.prior : pr[1] = last.request.rid /\ pr[2] \notin {NoId, last.request.cid}
    /\ last.request.rid \in Listed(last.request.cid, last.request.user)

\* C5: Delete(C) by the owner succeeds; afterwards Get(C) fails NotFound for
\* every user, every record that was linked to C still exists with its
\* membership reference cleared, and every other collection and record is
\* unchanged.
C5_DeleteClearsMembership ==
    [][ last'.request.op = "Delete" =>
        \A c \in {last'.request.cid} \cap CollectionIds,
           u \in {last'.request.user} \cap Users :
        ( /\ last'.request = Request("Delete", u, c, NoId, None, None, None)
          /\ Owns(u, c) )
        => /\ last'.status = 200
           /\ \A v \in Users :
                 get_collection_result(c, v)' =
                    NotFound(Request("Get", v, c, NoId, None, None, None),
                             "Collection not found")
           /\ DOMAIN records' = DOMAIN records
           /\ \A r \in DOMAIN records :
                 records'[r] = IF records[r].collection_id = c
                               THEN [records[r] EXCEPT !.collection_id = NoId]
                               ELSE records[r]
           /\ DOMAIN collections' = DOMAIN collections \ {c}
           /\ \A d \in DOMAIN collections' : collections'[d] = collections[d]
           /\ shares' = shares
      ]_vars

\* A collection was deleted that held a record, while another record stays
\* linked to another collection.
C5_Witness ==
    /\ last.request.op = "Delete"
    /\ last.status = 200
    /\ last.prior # {}
    /\ \A pr \in last.prior : records[pr[1]].collection_id = NoId
    /\ \E r \in DOMAIN records : records[r].collection_id # NoId

\* C6: LinkRecord(C, R) by the owner of C, where R exists and belongs to
\* another user, fails with NotFound and leaves R's membership unchanged.
C6_LinkForeignRecord ==
    [][ LET rq == last'.request IN
        ( /\ rq.op = "LinkRecord"
          /\ Owns(rq.user, rq.cid)
          /\ rq.rid \in DOMAIN records
          /\ records[rq.rid].user_id # rq.user )
        => /\ last' = NotFound(rq, "Record not found")
           /\ records' = records
      ]_vars

\* The caller owns the collection, the record is linked in its owner's
\* collection, and the link was refused.
C6_Witness ==
    /\ last.request.op = "LinkRecord"
    /\ last.status = 404
    /\ Owns(last.request.user, last.request.cid)
    /\ last.request.rid \in DOMAIN records
    /\ records[last.request.rid].user_id # last.request.user
    /\ records[last.request.rid].collection_id # NoId

\* C7: UnlinkRecord(C, R) by the owner of C and R fails with NotFound when R
\* is not linked to C (unlinked, or linked to another collection) and leaves
\* R's membership as it was.
C7_UnlinkNotMember ==
    [][ LET rq == last'.request IN
        ( /\ rq.op = "UnlinkRecord"
          /\ Owns(rq.user, rq.cid)
          /\ rq.rid \in DOMAIN records
          /\ records[rq.rid].user_id = rq.user
          /\ records[rq.rid].collection_id # rq.cid )
        => /\ last' = NotFound(rq, "Record not found in this collection")
           /\ records' = records
      ]_vars

\* The record is linked to another collection of the caller.
C7_Witness ==
    /\ last.request.op = "UnlinkRecord"
    /\ last.status = 404
    /\ Owns(last.request.user, last.request.cid)
    /\ last.request.rid \in DOMAIN records
    /\ records[last.request.rid].user_id = last.request.user
    /\ records[last.request.rid].collection_id \notin {NoId, last.request.cid}
    /\ Owns(last.request.user, records[last.request.rid].collection_id)

\* C8: AccessShared(token) gets one and the same NotFound reply when no share
\* has the token, when the share is inactive and when the share's collection
\* reference is null; it succeeds only for an active share that references an
\* existing collection; it never changes the store.
C8_AccessShared ==
    [][ LET rq == last'.request IN
        rq.op = "AccessShared"
        => /\ Store' = Store
           /\ last'.status \in {200, 404}
           /\ ( \/ rq.token \notin DOMAIN shares
                \/ ~ shares[rq.token].is_active
                \/ shares[rq.token].collection_id = NoId )
              => last' = NotFound(rq, "Invalid or expired share link")
           /\ last'.status = 200
              => /\ rq.token \in DOMAIN shares
                 /\ shares[rq.token].is_active
                 /\ shares[rq.token].collection_id \in DOMAIN collections
      ]_vars

\* A deactivated share of a collection that still exists was refused.
C8_Witness ==
    /\ last.request.op = "AccessShared"
    /\ last.status = 404
    /\ last.request.token \in DOMAIN shares
    /\ ~ shares[last.request.token].is_active
    /\ shares[last.request.token].collection_id \in DOMAIN collections

\* C9: when no request is in flight, no record's membership reference names a
\* collection that does not exist.
C9_NoDanglingAfterRequests ==
    (\A p \in Procs : reqs[p].pc = "idle")
    => \A r \in DOMAIN records :
          records[r].collection_id # NoId => records[r].collection_id \in DOMAIN collections

\* C10: every record with a membership reference references exactly one
\* collection, which exists and has the record's owner.
C10_MembershipWellFormed ==
    \A r \in DOMAIN records :
       records[r].collection_id # NoId
       => /\ Cardinality({c \in DOMAIN collections : c = records[r].collection_id}) = 1
          /\ collections[records[r].collection_id].user_id = records[r].user_id

\* A record is linked after another collection has been deleted.
C10_Witness ==
    /\ \E r \in DOMAIN records : records[r].collection_id # NoId
    /\ Cardinality(DOMAIN collections) < nextCollectionId - 1

====
